---- MODULE Spec2Model ----
(***************************************************************************)
(* Model of scripts/check-minimax-balance.js: one invocation of main()    *)
(* resolves the cookie, drives a headless browser to the user-center page, *)
(* probes the page for a balance API, prepends the observation to          *)
(* MINIMAX_BALANCE.md and tries to publish it with git.                    *)
(*                                                                         *)
(* Strings that the script inspects are sequences of one-character         *)
(* strings ("yen" stands for the RMB glyph, "yuan" for the CJK word) or,   *)
(* for URLs and class names, sequences of words; strings it only passes    *)
(* along (the cookie) are TLA+ strings.                                    *)
(***************************************************************************)
EXTENDS Integers, Sequences, FiniteSets, TLC

\* ------------------------------------------------------------------ bounds
MaxRuns == 2            \* serialized invocations of the script
MaxTicks == 2           \* half-second steps the clock may advance in total
MaxPad == 10            \* most non-candidate fetches recorded after the head
MaxHead == 2            \* freely chosen resource-timing entries
MaxContentLen == 501    \* longest document.body.innerText

\* ------------------------------------------------------- program constants
SnapshotLen == 500      \* content.substring(0, 500)
ApiWindow == 10         \* requests.slice(-10)
MsPerSecond == 1000     \* toISOString().substring(0, 19) drops the millis

\* ------------------------------------------------------------ JS helpers
Undefined == "<undefined>"

Min(a, b) == IF a < b THEN a ELSE b

Max(a, b) == IF a > b THEN a ELSE b

\* !v for the string-or-undefined values the script tests
Falsy(v) == v = Undefined \/ v = ""

\* a || b
OrElse(a, b) == IF Falsy(a) THEN b ELSE a

\* String.prototype.includes on a sequence of characters or words
Includes(s, x) == \E i \in 1..Len(s) : s[i] = x

\* String.prototype.substring(from, to) with 0-based from, exclusive to
Substring(s, from, to) ==
  LET lo == Min(Max(from, 0), Len(s))
      hi == Min(Max(to, 0), Len(s))
  IN  SubSeq(s, Min(lo, hi) + 1, Max(lo, hi))

\* Array.prototype.slice(-n)
SliceLast(s, n) == SubSeq(s, Max(Len(s) - n, 0) + 1, Len(s))

IsSuffix(old, new) ==
  /\ Len(old) <= Len(new)
  /\ SubSeq(new, Len(new) - Len(old) + 1, Len(new)) = old

IsPrefix(p, s) == Len(p) <= Len(s) /\ SubSeq(s, 1, Len(p)) = p

\* A completion record: how a call ended.
NoCompletion == [type |-> "none", value |-> [status |-> "none"], error |-> ""]

Return(v) == [type |-> "return", value |-> v, error |-> ""]

Throw(e) == [type |-> "throw", value |-> [status |-> "none"], error |-> e]

\* ------------------------------------------------------------- getCookie
NoFile == [exists |-> FALSE, parses |-> FALSE, cookie |-> Undefined]

CookieFiles ==
  {NoFile, [exists |-> TRUE, parses |-> FALSE, cookie |-> Undefined]}
  \cup {[exists |-> TRUE, parses |-> TRUE, cookie |-> c] :
          c \in {Undefined, "", "sid=file; uid=42"}}

\* process.env.MINIMAX_COOKIE
EnvCookies == {Undefined, "", "sid=env"}

\* getCookie with the two sources tried in the other order
getCookieEnvFirst(file, env) ==
  IF ~Falsy(env)
  THEN [type |-> "return", cookie |-> env, error |-> ""]
  ELSE IF file.exists /\ file.parses
       THEN [type |-> "return", cookie |-> file.cookie, error |-> ""]
       ELSE [type |-> "return", cookie |-> "", error |-> ""]

\* getCookie(): the file wins whenever it exists; the environment variable
\* is read only when the file does not exist.
getCookie(file, env) ==
  IF file.exists
  THEN IF file.parses
       THEN [type |-> "return", cookie |-> file.cookie, error |-> ""]
       ELSE [type |-> "throw", cookie |-> Undefined, error |-> "SyntaxError"]
  ELSE [type |-> "return", cookie |-> OrElse(env, ""), error |-> ""]

\* formatDate(): the ISO time cut after the seconds
formatDate(ms) == ms \div MsPerSecond

\* ------------------------------------------------- the page: DOM elements
\* An element: its tag, the words of its class attribute, its innerText.
El(tag, class, text) == [tag |-> tag, class |-> class, text |-> text]

\* the selectors of the scan, in the order of the array
Selectors ==
  << [kind |-> "class", word |-> "balance"],
     [kind |-> "class", word |-> "credit"],
     [kind |-> "class", word |-> "amount"],
     [kind |-> "class", word |-> "quota"],
     [kind |-> "tag", word |-> "span"],
     [kind |-> "tag", word |-> "div"] >>

\* document.querySelectorAll(sel) membership
Matches(sel, el) ==
  IF sel.kind = "class" THEN Includes(el.class, sel.word) ELSE el.tag = sel.word

IsDigit(c) == c \in {"0", "1", "2", "3", "4", "5", "6", "7", "8", "9"}

\* /\d+\.\d{2}/.test(text)
DecimalPattern(text) ==
  \E i \in 1..Len(text) :
    /\ i + 3 <= Len(text)
    /\ IsDigit(text[i]) /\ text[i + 1] = "."
    /\ IsDigit(text[i + 2]) /\ IsDigit(text[i + 3])

\* text && (text.includes(yen) || text.includes(yuan) || decimal pattern)
Accepted(text) ==
  /\ text # <<>>
  /\ Includes(text, "yen") \/ Includes(text, "yuan") \/ DecimalPattern(text)

\* the texts one selector logs, in document order
FoundBy(sel, dom) ==
  LET hits == SelectSeq(dom, LAMBDA el : Matches(sel, el) /\ Accepted(el.text))
  IN  [k \in 1..Len(hits) |-> hits[k].text]

\* the "Found: ..." lines of the scan, selector by selector
RECURSIVE FoundFrom(_, _)
FoundFrom(k, dom) ==
  IF k > Len(Selectors) THEN <<>>
  ELSE FoundBy(Selectors[k], dom) \o FoundFrom(k + 1, dom)

Found(dom) == FoundFrom(1, dom)

Doms ==
  { << El("p", <<"title">>, <<"h", "i">>),
       El("span", <<"amount">>, <<"-", "-">>) >>,
    << El("span", <<"balance", "amount">>,
          <<"yen", "1", "2", "8", ".", "5", "0">>) >>,
    << El("div", <<"price">>, <<"9", ".", "9", "9">>),
       El("span", <<"user", "quota">>, <<"5", "yuan">>) >> }

\* ------------------------------------------ the page: document.body.innerText
Text(n) == [k \in 1..n |-> IF k % 2 = 1 THEN "a" ELSE "b"]

ContentLens == {0, 1, SnapshotLen, MaxContentLen}

\* ---------------------------------------- the page: resource-timing entries
\* A PerformanceResourceTiming entry with what a re-fetch of its URL yields.
\* An XMLHttpRequest is reported with initiatorType "xmlhttprequest".
Entry(name, type, ok, amount) ==
  [name |-> name, initiatorType |-> type, ok |-> ok, json |-> [amount |-> amount]]

FetchBalance == Entry(<<"api", "balance">>, "fetch", TRUE, 12850)

FetchQuotaDown == Entry(<<"api", "quota">>, "fetch", FALSE, 0)

XhrCredit == Entry(<<"api", "credit">>, "xmlhttprequest", TRUE, 700)

ImgBalance == Entry(<<"img", "balance">>, "img", FALSE, 0)

FetchUser == Entry(<<"api", "user">>, "fetch", TRUE, 0)

EntryKinds == {FetchBalance, FetchQuotaDown, XhrCredit, ImgBalance}

Heads == UNION {[1..n -> EntryKinds] : n \in 0..MaxHead}

PadCounts == {0, MaxPad - 1, MaxPad}

EntryLists == {h \o [k \in 1..n |-> FetchUser] : h \in Heads, n \in PadCounts}

\* performance.getEntriesByType('resource').filter(...).map(...).slice(-10)
IsFetchOrXhr(r) == r.initiatorType = "fetch" \/ r.initiatorType = "xhr"

ApiCalls(entries) == SliceLast(SelectSeq(entries, IsFetchOrXhr), ApiWindow)

\* call.name.includes('balance') || ...('credit') || ...('quota')
IsBalanceApi(call) ==
  \/ Includes(call.name, "balance")
  \/ Includes(call.name, "credit")
  \/ Includes(call.name, "quota")

Pages ==
  [dom : Doms, content : {Text(n) : n \in ContentLens}, entries : EntryLists]

NoPage == [dom |-> <<>>, content |-> <<>>, entries |-> <<>>]

\* the fallback result without the cut
PageLoadedWhole(content) ==
  [status |-> "page_loaded", content_preview |-> content]

\* the fallback result with a variant of its own for a page without text
PageLoadedOrEmpty(content) ==
  IF content = <<>> THEN [status |-> "empty", content_preview |-> <<>>]
  ELSE [status |-> "page_loaded", content_preview |-> Substring(content, 0, SnapshotLen)]

\* { status: 'page_loaded', content_preview: content.substring(0, 500) }
PageLoaded(content) ==
  [status |-> "page_loaded", content_preview |-> Substring(content, 0, SnapshotLen)]

\* --------------------------------------------------- MINIMAX_BALANCE.md
\* The file content is a sequence of pieces of text.
Piece(kind, date, body) == [kind |-> kind, date |-> date, body |-> body]

NoBody == [timestamp |-> 0, data |-> [status |-> "none"]]

\* "# MiniMax <title>\n\n"
Title == Piece("title", 0, NoBody)

\* "## <date> UTC\n"
Header(d) == Piece("header", d, NoBody)

\* JSON.stringify(balanceData, null, 2) followed by "\n\n"
Body(balanceData) == Piece("json", 0, balanceData)

\* "\n---\n\n"
Rule == Piece("rule", 0, NoBody)

\* text that some earlier hand or run left in the file
Notes == Piece("notes", 0, NoBody)

AbsentFile == [exists |-> FALSE, content |-> <<>>]

File(c) == [exists |-> TRUE, content |-> c]

InitialFiles == {AbsentFile, File(<<>>), File(<<Notes>>)}

\* const record = `## ${date}\n${JSON.stringify(balanceData, null, 2)}\n\n`
Record(d, balanceData) == <<Header(d), Body(balanceData)>>

\* the new content added at the end of the file
NewContentAppended(record, existingContent) ==
  existingContent \o <<Title>> \o record \o <<Rule>>

\* the new content without what the file held
NewContentOverwrite(record, existingContent) == <<Title>> \o record \o <<Rule>>

\* `# MiniMax ...\n\n${record}\n---\n\n${existingContent}`
NewContent(record, existingContent) ==
  <<Title>> \o record \o <<Rule>> \o existingContent

\* ------------------------------------------------------------------ state
VARIABLES
  cookieFile,       \* minimax-cookie.json
  envCookie,        \* process.env.MINIMAX_COOKIE
  balanceFile,      \* MINIMAX_BALANCE.md
  firstFile,        \* history: the file before the first invocation
  startFile,        \* history: the file when this invocation started
  recorded,         \* history: the observations written so far, oldest first
  clock,            \* Date.now(), milliseconds
  run,              \* which invocation of the script this is
  pc,               \* the statement the invocation is at
  cookie,           \* fetchBalance: const cookie
  browser,          \* calls made on the browser: launch, goto, close
  page,             \* what the navigation loaded
  pageConsole,      \* the "Found: ..." lines logged inside the page
  content,          \* fetchBalance: const content
  apiCalls,         \* fetchBalance: const apiCalls
  idx,              \* position of the for..of loop in apiCalls
  fetched,          \* URLs re-fetched inside the page
  completion,       \* how fetchBalance / saveToGitHub ended
  timestamp,        \* main: the timestamp field of balanceData
  date,             \* saveToGitHub: const date
  existingContent,  \* saveToGitHub: let existingContent
  writes,           \* fs.writeFileSync calls that succeeded in this run
  gitCmds,          \* execSync calls of this run, with their outcome
  console,          \* lines the invocation logged
  exited,           \* the process has ended
  exitCode          \* its exit code

envVars == <<cookieFile, envCookie, firstFile>>

logVars == <<balanceFile, recorded>>

runVars == <<run, startFile>>

fetchVars == <<cookie, page, pageConsole, content, apiCalls, idx, fetched>>

saveVars == <<timestamp, date, existingContent, writes, gitCmds>>

exitVars == <<exited, exitCode>>

vars ==
  <<envVars, logVars, clock, runVars, pc, browser, fetchVars, completion,
    saveVars, console, exitVars>>

NoBrowser == [launches |-> 0, pages |-> 0, gotos |-> 0, closes |-> 0]

\* the locals of one invocation before it has run
Fresh ==
  /\ pc = "main"
  /\ cookie = Undefined
  /\ browser = NoBrowser
  /\ page = NoPage
  /\ pageConsole = <<>>
  /\ content = <<>>
  /\ apiCalls = <<>>
  /\ idx = 1
  /\ fetched = <<>>
  /\ completion = NoCompletion
  /\ timestamp = 0
  /\ date = 0
  /\ existingContent = <<>>
  /\ writes = 0
  /\ gitCmds = <<>>
  /\ console = <<>>
  /\ exited = FALSE
  /\ exitCode = 0

Init ==
  /\ cookieFile \in CookieFiles
  /\ envCookie \in EnvCookies
  /\ balanceFile \in InitialFiles
  /\ firstFile = balanceFile
  /\ startFile = balanceFile
  /\ recorded = <<>>
  /\ clock = 0
  /\ run = 1
  /\ Fresh

\* ------------------------------------------------------------------ main
Log(line) == console' = Append(console, line)

\* main, lines 155-156: the banner and the time
MainStart ==
  /\ pc = "main" /\ ~exited
  /\ pc' = "getCookie"
  /\ Log("banner")
  /\ UNCHANGED <<envVars, logVars, clock, runVars, browser, fetchVars,
                 completion, saveVars, exitVars>>

\* ----------------------------------------------------------- fetchBalance
\* the test of line 30 as c === undefined
MissingCookieUndefinedOnly(c) == c = Undefined

\* if (!cookie)
MissingCookie(c) == Falsy(c)

\* lines 29-32: resolve the cookie, throw when there is none
GetCookie ==
  /\ pc = "getCookie"
  /\ LET r == getCookie(cookieFile, envCookie) IN
       IF r.type = "throw"
       THEN /\ completion' = Throw(r.error)
            /\ pc' = "catch"
            /\ UNCHANGED cookie
       ELSE /\ cookie' = r.cookie
            /\ IF MissingCookie(r.cookie)
               THEN completion' = Throw("MissingCredential") /\ pc' = "catch"
               ELSE pc' = "launch" /\ UNCHANGED completion
  /\ UNCHANGED <<envVars, logVars, clock, runVars, browser, page, pageConsole,
                 content, apiCalls, idx, fetched, saveVars, console, exitVars>>

\* lines 38-44: require('puppeteer') and puppeteer.launch, outside the try
Launch ==
  /\ pc = "launch"
  /\ \E ok \in BOOLEAN :
       IF ok
       THEN /\ browser' = [browser EXCEPT !.launches = @ + 1]
            /\ pc' = "newPage"
            /\ UNCHANGED completion
       ELSE /\ completion' = Throw("LaunchError")
            /\ pc' = "catch"
            /\ UNCHANGED browser
  /\ UNCHANGED <<envVars, logVars, clock, runVars, fetchVars, saveVars,
                 console, exitVars>>

\* a try block whose close is skipped when the block throws
TryExitNoFinally(c) ==
  [pc |-> IF c.type = "throw" THEN "catch" ELSE "finally", completion |-> c]

\* Leaving the try block of lines 46-120 with completion c: the finally
\* block runs first, whether c is a return or a throw.
TryExit(c) == [pc |-> "finally", completion |-> c]

Leave(c) ==
  /\ pc' = TryExit(c).pc
  /\ completion' = TryExit(c).completion

\* line 47: browser.newPage()
NewPage ==
  /\ pc = "newPage"
  /\ \E ok \in BOOLEAN :
       IF ok
       THEN /\ browser' = [browser EXCEPT !.pages = @ + 1]
            /\ pc' = "setCookie"
            /\ UNCHANGED completion
       ELSE Leave(Throw("PageError")) /\ UNCHANGED browser
  /\ UNCHANGED <<envVars, logVars, clock, runVars, fetchVars, saveVars,
                 console, exitVars>>

\* lines 50-54: page.setCookie(...cookies)
SetCookie ==
  /\ pc = "setCookie"
  /\ \E ok \in BOOLEAN :
       IF ok
       THEN pc' = "goto" /\ UNCHANGED completion
       ELSE Leave(Throw("CookieError"))
  /\ UNCHANGED <<envVars, logVars, clock, runVars, browser, fetchVars,
                 saveVars, console, exitVars>>

\* line 57: page.goto(url, networkidle0, 30 s); the page it loads is one
\* of pages
Goto(pages) ==
  /\ pc = "goto"
  /\ browser' = [browser EXCEPT !.gotos = @ + 1]
  /\ \/ /\ page' \in pages
        /\ pc' = "waitForSelector"
        /\ UNCHANGED completion
     \/ /\ Leave(Throw("NavigationError"))
        /\ UNCHANGED page
  /\ UNCHANGED <<envVars, logVars, clock, runVars, cookie, pageConsole,
                 content, apiCalls, idx, fetched, saveVars, console, exitVars>>

\* line 60: page.waitForSelector('body', 10 s)
WaitForSelector ==
  /\ pc = "waitForSelector"
  /\ \E ok \in BOOLEAN :
       IF ok
       THEN pc' = "scan" /\ UNCHANGED completion
       ELSE Leave(Throw("TimeoutError"))
  /\ UNCHANGED <<envVars, logVars, clock, runVars, browser, fetchVars,
                 saveVars, console, exitVars>>

\* lines 63-88: the scan logs what it finds inside the page and returns
\* document.body.innerText
EvaluateScan ==
  /\ pc = "scan"
  /\ \E ok \in BOOLEAN :
       IF ok
       THEN /\ pageConsole' = Found(page.dom)
            /\ content' = page.content
            /\ pc' = "apiCalls"
            /\ Log("Page content loaded")
            /\ UNCHANGED completion
       ELSE /\ Leave(Throw("EvaluateError"))
            /\ UNCHANGED <<pageConsole, content, console>>
  /\ UNCHANGED <<envVars, logVars, clock, runVars, browser, cookie, page,
                 apiCalls, idx, fetched, saveVars, exitVars>>

\* lines 91-98: the resource-timing query
EvaluateApiCalls ==
  /\ pc = "apiCalls"
  /\ \E ok \in BOOLEAN :
       IF ok
       THEN /\ apiCalls' = ApiCalls(page.entries)
            /\ idx' = 1
            /\ pc' = "loop"
            /\ Log("API calls")
            /\ UNCHANGED completion
       ELSE /\ Leave(Throw("EvaluateError"))
            /\ UNCHANGED <<apiCalls, idx, console>>
  /\ UNCHANGED <<envVars, logVars, clock, runVars, browser, cookie, page,
                 pageConsole, content, fetched, saveVars, exitVars>>

\* a loop without the test of the URL
NextCandidateAny(calls, i) == i

\* the first position from i on whose call passes the if of line 102,
\* Len(calls) + 1 when there is none
RECURSIVE NextCandidate(_, _)
NextCandidate(calls, i) ==
  IF i > Len(calls) \/ IsBalanceApi(calls[i]) THEN i
  ELSE NextCandidate(calls, i + 1)

\* a re-fetch whose error leaves the try block
RefetchFailedThrows == TryExit(Throw("EvaluateError"))

\* lines 110-112: the catch of the re-fetch logs and the loop goes on
RefetchFailed == [pc |-> "loop", completion |-> NoCompletion]

\* lines 101-114: the loop runs to its next candidate and re-fetches it
LoopCandidate ==
  /\ pc = "loop"
  /\ LET i == NextCandidate(apiCalls, idx) IN
       /\ i <= Len(apiCalls)
       /\ fetched' = Append(fetched, apiCalls[i].name)
       /\ idx' = i + 1
       /\ IF apiCalls[i].ok
          THEN /\ Leave(Return(apiCalls[i].json))
               /\ Log("Balance API response")
          ELSE /\ pc' = RefetchFailed.pc
               /\ completion' = RefetchFailed.completion
               /\ Log("Failed to fetch API")
  /\ UNCHANGED <<envVars, logVars, clock, runVars, browser, cookie, page,
                 pageConsole, content, apiCalls, saveVars, exitVars>>

\* line 116: no candidate is left
ReturnPageLoaded ==
  /\ pc = "loop"
  /\ NextCandidate(apiCalls, idx) > Len(apiCalls)
  /\ Leave(Return(PageLoaded(content)))
  /\ UNCHANGED <<envVars, logVars, clock, runVars, browser, fetchVars,
                 saveVars, console, exitVars>>

\* fetchBalance is left: its locals are gone, and so is the page
FrameGone ==
  /\ cookie' = Undefined
  /\ page' = NoPage
  /\ pageConsole' = <<>>
  /\ content' = <<>>
  /\ apiCalls' = <<>>
  /\ idx' = 1
  /\ fetched' = <<>>

\* a finally block that swallows the pending throw
AfterFinallySwallows(c) == "fetched"

\* where control goes once the finally block is through with completion c
AfterFinally(c) == IF c.type = "return" THEN "fetched" ELSE "catch"

\* lines 118-120: finally { await browser.close() }, then the pending
\* return or throw completes unless close itself throws
Finally ==
  /\ pc = "finally"
  /\ browser' = [browser EXCEPT !.closes = @ + 1]
  /\ \E ok \in BOOLEAN :
       IF ok
       THEN /\ pc' = AfterFinally(completion)
            /\ UNCHANGED completion
       ELSE /\ completion' = Throw("CloseError")
            /\ pc' = "catch"
  /\ FrameGone
  /\ UNCHANGED <<envVars, logVars, clock, runVars, saveVars, console, exitVars>>

\* ------------------------------------------------------- main, continued
\* lines 160-165: log the result, build { timestamp: formatDate(), data }
MainFetched ==
  /\ pc = "fetched"
  /\ timestamp' = formatDate(clock)
  /\ pc' = "saveDate"
  /\ Log("balance")
  /\ UNCHANGED <<envVars, logVars, clock, runVars, browser, fetchVars,
                 completion, date, existingContent, writes, gitCmds, exitVars>>

\* ----------------------------------------------------------- saveToGitHub
\* line 124: const date = formatDate()
SaveDate ==
  /\ pc = "saveDate"
  /\ date' = formatDate(clock)
  /\ pc' = "saveRead"
  /\ UNCHANGED <<envVars, logVars, clock, runVars, browser, fetchVars,
                 completion, timestamp, existingContent, writes, gitCmds,
                 console, exitVars>>

\* a log read or write whose error is swallowed
PersistFailedSwallowed(e) == [pc |-> "gitAdd", completion |-> Throw(e)]

\* fs.readFileSync / fs.writeFileSync throw: nothing in saveToGitHub catches
\* it, the error reaches the catch of main
PersistFailed(e) == [pc |-> "catch", completion |-> Throw(e)]

\* an observation without the extraction result
BalanceDataBare(ts, v) == [timestamp |-> ts, data |-> NoBody.data]

\* lines 162-165: { timestamp: formatDate(), data: balance }
BalanceData(ts, v) == [timestamp |-> ts, data |-> v]

\* lines 131-134: read the file when it exists
SaveRead ==
  /\ pc = "saveRead"
  /\ \/ /\ existingContent' = IF balanceFile.exists THEN balanceFile.content ELSE <<>>
        /\ pc' = "saveWrite"
        /\ UNCHANGED completion
     \/ /\ balanceFile.exists
        /\ completion' = PersistFailed("ReadError").completion
        /\ pc' = PersistFailed("ReadError").pc
        /\ UNCHANGED existingContent
  /\ UNCHANGED <<envVars, logVars, clock, runVars, browser, fetchVars,
                 timestamp, date, writes, gitCmds, console, exitVars>>

\* lines 137-140: fs.writeFileSync(balanceFile, newContent); a write that
\* fails leaves the file as it was or, once opened, truncated
SaveWrite ==
  /\ pc = "saveWrite"
  /\ \/ /\ balanceFile' =
             File(NewContent(Record(date, BalanceData(timestamp, completion.value)),
                             existingContent))
        /\ recorded' =
             Append(recorded,
                    [date |-> date, body |-> BalanceData(timestamp, completion.value)])
        /\ writes' = writes + 1
        /\ pc' = "gitAdd"
        /\ Log("saved")
        /\ UNCHANGED completion
     \/ /\ balanceFile' \in {balanceFile, File(<<>>)}
        /\ completion' = PersistFailed("WriteError").completion
        /\ pc' = PersistFailed("WriteError").pc
        /\ UNCHANGED <<recorded, writes, console>>
  /\ UNCHANGED <<envVars, clock, runVars, browser, fetchVars, timestamp, date,
                 existingContent, gitCmds, exitVars>>

\* every execSync in a try block of its own: the next step runs anyway
GitNextAlways(ok, next) == next

\* execSync failures that reach the catch of main
GitNextFatal(ok, next) == IF ok THEN next ELSE "catch"

\* where control goes after one execSync: on to the next statement, or
\* through the catch of lines 149-151 to the end of saveToGitHub
GitNext(ok, next) == IF ok THEN next ELSE "done"

\* one execSync of lines 145-147; a failure is caught at line 149-151
Git(at, cmd, msg, next, last) ==
  /\ pc = at
  /\ \E ok \in BOOLEAN :
       /\ gitCmds' = Append(gitCmds, [cmd |-> cmd, msg |-> msg, ok |-> ok])
       /\ pc' = GitNext(ok, next)
       /\ IF ok /\ ~last THEN UNCHANGED console
          ELSE Log(IF ok THEN "synced" ELSE "Git sync failed")
  /\ UNCHANGED <<envVars, logVars, clock, runVars, browser, fetchVars,
                 completion, timestamp, date, existingContent, writes, exitVars>>

\* line 145: git add -A
GitAdd == Git("gitAdd", "add", 0, "gitCommit", FALSE)

\* line 146: git commit -m "docs: ... - ${date}"
GitCommit == Git("gitCommit", "commit", date, "gitPush", FALSE)

\* line 147: git push origin main
GitPush == Git("gitPush", "push", 0, "done", TRUE)

\* line 167: the last statement of the try block; the process then ends
MainDone ==
  /\ pc = "done"
  /\ pc' = "exited"
  /\ exited' = TRUE
  /\ exitCode' = 0
  /\ Log("done")
  /\ UNCHANGED <<envVars, logVars, clock, runVars, browser, fetchVars,
                 completion, saveVars>>

\* lines 168-171: catch (error) { console.error(...); process.exit(1) }
MainCatch ==
  /\ pc = "catch"
  /\ pc' = "exited"
  /\ exited' = TRUE
  /\ exitCode' = 1
  /\ Log(completion.error)
  /\ UNCHANGED <<envVars, logVars, clock, runVars, browser, fetchVars,
                 completion, saveVars>>

\* ------------------------------------------------------------ environment
\* The clock moves on by half a second.  Only formatDate observes it, so
\* the time that passed is added up where the next formatDate call is due.
Tick ==
  /\ pc \in {"fetched", "saveDate"}
  /\ clock < MaxTicks * (MsPerSecond \div 2)
  /\ clock' = clock + MsPerSecond \div 2
  /\ UNCHANGED <<envVars, logVars, runVars, pc, browser, fetchVars,
                 completion, saveVars, console, exitVars>>

\* the scheduler invokes the script again once the last invocation ended
StartRun ==
  /\ exited
  /\ run < MaxRuns
  /\ run' = run + 1
  /\ startFile' = balanceFile
  /\ pc' = "main"
  /\ browser' = NoBrowser
  /\ FrameGone
  /\ completion' = NoCompletion
  /\ timestamp' = 0
  /\ date' = 0
  /\ existingContent' = <<>>
  /\ writes' = 0
  /\ gitCmds' = <<>>
  /\ console' = <<>>
  /\ exited' = FALSE
  /\ exitCode' = 0
  /\ UNCHANGED <<envVars, logVars, clock>>

Step(pages) ==
  \/ MainStart \/ GetCookie \/ Launch \/ NewPage \/ SetCookie \/ Goto(pages)
  \/ WaitForSelector \/ EvaluateScan \/ EvaluateApiCalls \/ LoopCandidate
  \/ ReturnPageLoaded \/ Finally \/ MainFetched \/ SaveDate \/ SaveRead
  \/ SaveWrite \/ GitAdd \/ GitCommit \/ GitPush \/ MainDone \/ MainCatch
  \/ Tick

\* one invocation, any page
Next == Step(Pages)

Spec == Init /\ [][Next]_vars

\* several invocations one after the other, each on one of a few pages
RunPages ==
  [dom : {<<>>}, content : {<<>>, Text(1)},
   entries : {<<>>, <<FetchBalance>>, <<FetchQuotaDown, FetchBalance>>}]

NextRuns == Step(RunPages) \/ StartRun

SpecRuns == Init /\ [][NextRuns]_vars

\* ================================================================ claims
InTry ==
  pc \in {"newPage", "setCookie", "goto", "waitForSelector", "scan",
          "apiCalls", "loop"}

BackInMain ==
  pc \in {"fetched", "saveDate", "saveRead", "saveWrite", "gitAdd",
          "gitCommit", "gitPush", "done", "catch", "exited"}

\* fetchBalance is about to return v: the finally block has not run yet
Returning == pc = "finally" /\ completion.type = "return"

\* the credential file yields a non-empty cookie
FileYields == cookieFile.exists /\ cookieFile.parses /\ ~Falsy(cookieFile.cookie)

\* the environment variable yields a non-empty cookie
EnvYields == ~Falsy(envCookie)

\* the scan accepted some element of the loaded page
DomMatch == Found(page.dom) # <<>>

\* a resource-timing entry made by fetch or XMLHttpRequest whose URL names
\* balance, credit or quota
IsCandidate(r) ==
  /\ r.initiatorType \in {"fetch", "xmlhttprequest"}
  /\ IsBalanceApi(r)

Candidates(entries) == SelectSeq(entries, IsCandidate)

\* the candidates among the ApiWindow latest fetch and XMLHttpRequest entries
RecentCandidates(entries) ==
  Candidates(SliceLast(
    SelectSeq(entries,
              LAMBDA r : r.initiatorType \in {"fetch", "xmlhttprequest"}),
    ApiWindow))

\* C1: once the browser is launched it is closed exactly once on every way
\* out of fetchBalance, never while the try block still runs, and always
\* before main goes on to the log write, the git steps or the exit.
C1_BrowserClosedExactlyOnce ==
  /\ browser.closes <= browser.launches
  /\ (InTry \/ pc = "finally") => browser.launches = 1 /\ browser.closes = 0
  /\ (BackInMain /\ browser.launches = 1) => browser.closes = 1
  /\ (writes > 0 \/ gitCmds # <<>> \/ exited) => browser.closes = browser.launches

C1_Witness ==
  /\ pc = "catch" /\ completion.error = "TimeoutError"
  /\ browser.launches = 1 /\ browser.closes = 1

\* C2: without a credential file and with the environment variable unset or
\* empty the run ends in the missing-credential error with exit code 1, and
\* it never launches a browser, writes the log or runs git.
C2_NoCredentialAborts ==
  (~cookieFile.exists /\ Falsy(envCookie)) =>
    /\ pc \in {"main", "getCookie", "catch", "exited"}
    /\ browser = NoBrowser /\ writes = 0 /\ gitCmds = <<>>
    /\ pc \in {"catch", "exited"} => completion.error = "MissingCredential"
    /\ exited => exitCode = 1

C2_Witness ==
  /\ ~cookieFile.exists /\ envCookie = ""
  /\ exited /\ exitCode = 1 /\ completion.error = "MissingCredential"

\* C3: when the file and the environment variable both hold a non-empty
\* cookie, the cookie fetchBalance works with is the one of the file.
C3_FilePreferred ==
  (FileYields /\ EnvYields /\ pc # "main" /\ pc # "getCookie") =>
    /\ completion.error # "MissingCredential"
    /\ (pc = "launch" \/ InTry \/ pc = "finally") => cookie = cookieFile.cookie

C3_Witness ==
  /\ FileYields /\ EnvYields /\ cookieFile.cookie # envCookie
  /\ pc = "launch" /\ cookie = cookieFile.cookie

\* C4: credential resolution fails with the missing-credential error exactly
\* when neither source yields a non-empty cookie; with one that does, the
\* run goes on with a non-empty cookie.
C4_FailsIffNoSource ==
  (pc # "main" /\ pc # "getCookie") =>
    /\ (completion.error = "MissingCredential") => ~(FileYields \/ EnvYields)
    /\ ~(FileYields \/ EnvYields) => (pc \in {"catch", "exited"} /\ browser = NoBrowser)
    /\ (pc = "launch") => ~Falsy(cookie)

\* the result that carries the first accepted element of the scan
DomResult(dom) == [status |-> "dom_match", source |-> Head(Found(dom))]

\* C5: when the scan accepts an element and a candidate exists too, the
\* result is the first accepted element and no URL is re-fetched.
C5_DomMatchWins ==
  (Returning /\ DomMatch /\ Candidates(page.entries) # <<>>) =>
    /\ completion.value = DomResult(page.dom)
    /\ fetched = <<>>

\* C6: with no element accepted and exactly one candidate, whose re-fetch
\* parses, the result is the parsed body of that re-fetch.
C6_SingleCandidateWins ==
  (/\ Returning /\ ~DomMatch
   /\ Len(Candidates(page.entries)) = 1
   /\ RecentCandidates(page.entries) = Candidates(page.entries)
   /\ Candidates(page.entries)[1].ok) =>
    completion.value = Candidates(page.entries)[1].json

\* C7: with no element accepted and no candidate, or none whose re-fetch
\* succeeds, the result is the page_loaded sample whose preview is the
\* first min(length, 500) characters of the page text.
C7_RawSnapshot ==
  (/\ Returning /\ ~DomMatch
   /\ \A k \in 1..Len(Candidates(page.entries)) : ~Candidates(page.entries)[k].ok) =>
    /\ completion.value.status = "page_loaded"
    /\ Len(completion.value.content_preview) = Min(Len(page.content), SnapshotLen)
    /\ Len(completion.value.content_preview) <= SnapshotLen
    /\ IsPrefix(completion.value.content_preview, page.content)

C7_Witness ==
  /\ Returning /\ ~DomMatch /\ fetched # <<>>
  /\ \A k \in 1..Len(Candidates(page.entries)) : ~Candidates(page.entries)[k].ok
  /\ Len(page.content) > SnapshotLen
  /\ Len(completion.value.content_preview) = SnapshotLen

\* the result is a sample of the page text, not a parsed response
IsSample(v) == "status" \in DOMAIN v

\* the result is the parsed body of the candidate re-fetched last
FromRefetch ==
  /\ idx > 1 /\ idx - 1 <= Len(apiCalls)
  /\ IsBalanceApi(apiCalls[idx - 1]) /\ apiCalls[idx - 1].ok
  /\ completion.value = apiCalls[idx - 1].json

\* the result is the page_loaded sample of the page text
FromFallback ==
  completion.value =
    [status |-> "page_loaded",
     content_preview |-> SubSeq(page.content, 1, Min(Len(page.content), SnapshotLen))]

\* C8 as stated: for a page without text, with no result from an earlier
\* strategy, the result is an Empty variant that differs from the raw
\* content sample.
C8_EmptyVariant ==
  (Returning /\ page.content = <<>> /\ IsSample(completion.value)) =>
    completion.value.status # "page_loaded"

\* C8 as amended: for a page without text, with no candidate re-fetched
\* successfully, the result is the page_loaded sample with an empty preview,
\* the same shape as for any other page text; and every result returned is
\* either the parsed body of the candidate re-fetched last or the
\* page_loaded sample, never both.
C8_EmptyPageIsPageLoaded ==
  Returning =>
    /\ FromRefetch # FromFallback
    /\ (page.content = <<>> /\ ~FromRefetch) =>
         completion.value = [status |-> "page_loaded", content_preview |-> <<>>]

C8_Witness ==
  /\ Returning /\ page.content = <<>> /\ fetched # <<>>
  /\ completion.value = [status |-> "page_loaded", content_preview |-> <<>>]

\* C9 as stated: no error thrown by an extraction step after the DOM-ready
\* wait brings the run to the catch of main; the run records and exits 0.
C9_NeverFailsOutward ==
  (pc \in {"catch", "exited"} /\ completion.error = "EvaluateError") =>
    (exited /\ exitCode = 0 /\ writes = 1)

\* C9 as amended: only the error of a candidate re-fetch is absorbed (the
\* loop goes on, nothing is thrown); an error thrown by the scan evaluation,
\* which includes the capture of the page text, or by the resource-timing
\* query leaves fetchBalance through the finally block: nothing is written
\* or published and the run exits with code 1.
C9_OnlyRefetchErrorsAbsorbed ==
  /\ (completion.error = "EvaluateError") =>
       /\ pc \in {"finally", "catch", "exited"}
       /\ fetched = <<>>
       /\ writes = 0 /\ gitCmds = <<>>
       /\ exited => exitCode = 1
  /\ (pc = "loop" /\ fetched # <<>>) => completion = NoCompletion

C9_Witness ==
  /\ exited /\ exitCode = 1 /\ completion.error = "EvaluateError"
  /\ browser.gotos = 1 /\ browser.closes = 1
  /\ Includes(console, "Page content loaded")

\* what the log file holds, nothing when it does not exist
Prior == IF balanceFile.exists THEN balanceFile.content ELSE <<>>

Reverse(s) == [k \in 1..Len(s) |-> s[Len(s) + 1 - k]]

OfKind(text, kind) == SelectSeq(text, LAMBDA p : p.kind = kind)

\* the observation sections of a file text, top to bottom
Sections(text) ==
  LET hs == OfKind(text, "header")
      bs == OfKind(text, "json")
  IN  [k \in 1..Min(Len(hs), Len(bs)) |-> [date |-> hs[k].date, body |-> bs[k].body]]

\* every two section headers have a horizontal rule between them
RuleBetweenSections(text) ==
  \A i, j \in 1..Len(text) :
    (i < j /\ text[i].kind = "header" /\ text[j].kind = "header") =>
      \E k \in (i + 1)..(j - 1) : text[k] = Rule

\* every invocation so far got as far as writing the log, and wrote it
AllRunsCompleted ==
  /\ Len(recorded) = (IF writes = 1 THEN run ELSE run - 1)
  /\ completion.error # "WriteError"

\* C11: starting from an absent or empty log, after n completed runs the
\* file holds exactly n observation sections, the one of the latest run
\* first, and a horizontal rule between consecutive sections.
C11_NewestFirst ==
  (firstFile \in {AbsentFile, File(<<>>)} /\ AllRunsCompleted) =>
    /\ Len(OfKind(balanceFile.content, "header")) = Len(recorded)
    /\ Len(OfKind(balanceFile.content, "json")) = Len(recorded)
    /\ Sections(balanceFile.content) = Reverse(recorded)
    /\ RuleBetweenSections(balanceFile.content)
    /\ Len(OfKind(balanceFile.content, "rule")) = Len(recorded)

C11_Witness ==
  /\ firstFile = AbsentFile /\ run = 2 /\ exited /\ exitCode = 0
  /\ Len(recorded) = 2 /\ recorded[1] # recorded[2]
  /\ Sections(balanceFile.content) = <<recorded[2], recorded[1]>>

\* some execSync of this run failed
GitFailed == \E k \in 1..Len(gitCmds) : ~gitCmds[k].ok

\* C12: a failure of git add, git commit or git push is caught and logged
\* and is never fatal: the run goes on to its end, exits with code 0, and
\* the log file still begins with the section this run wrote.
C12_SyncFailureNotFatal ==
  GitFailed =>
    /\ pc \in {"done", "exited"}
    /\ Includes(console, "Git sync failed")
    /\ completion.type = "return"
    /\ exited => exitCode = 0
    /\ writes = 1 /\ balanceFile.exists
    /\ Sections(balanceFile.content)[1] = recorded[Len(recorded)]
    /\ recorded[Len(recorded)].body.data = completion.value

C12_Witness ==
  /\ exited /\ exitCode = 0
  /\ Len(gitCmds) = 3 /\ gitCmds[1].ok /\ gitCmds[2].ok
  /\ gitCmds[3].cmd = "push" /\ ~gitCmds[3].ok
  /\ Includes(console, "Git sync failed")

\* the credential is missing or unreadable
CredentialErrors == {"MissingCredential", "SyntaxError"}

\* the browser session is not established or not navigated in time
SessionErrors ==
  {"LaunchError", "PageError", "CookieError", "NavigationError", "TimeoutError"}

\* C13 as stated: the exit code is non-zero only when the credential is
\* missing or the browser session cannot be established or navigated, and
\* in no other case.
C13_NonZeroOnlyForCredentialOrSession ==
  (exited /\ exitCode # 0) =>
    completion.error \in CredentialErrors \cup SessionErrors

\* C13 as amended: the run exits with code 0 exactly when fetchBalance
\* returned a result, degraded or not, and the log was written, whatever
\* git did; it exits with code 1 exactly when an error reached the catch of
\* main: a credential or session error, an error of the scan or of the
\* resource-timing query, a failing browser.close(), or a failure to read
\* or write the log.
C13_ExitCodes ==
  exited =>
    /\ exitCode \in {0, 1}
    /\ (exitCode = 0) <=> (completion.type = "return" /\ writes = 1)
    /\ (exitCode = 1) <=>
         /\ completion.type = "throw"
         /\ completion.error \in
              CredentialErrors \cup SessionErrors
                \cup {"EvaluateError", "CloseError", "ReadError", "WriteError"}
    /\ (exitCode = 1 /\ completion.error \notin {"WriteError"}) => balanceFile = startFile

C13_Witness ==
  /\ exited /\ exitCode = 1 /\ completion.error = "ReadError"
  /\ browser.launches = 1 /\ browser.closes = 1 /\ Includes(console, "balance")

\* C14: a failure to read or write the log file reaches main: the run ends
\* with exit code 1 and runs no git command.
C14_PersistenceErrorFatal ==
  (completion.error \in {"ReadError", "WriteError"}) =>
    /\ pc \in {"catch", "exited"}
    /\ gitCmds = <<>> /\ writes = 0
    /\ exited => exitCode = 1

C14_Witness ==
  /\ exited /\ exitCode = 1 /\ completion.error = "WriteError"
  /\ gitCmds = <<>> /\ Includes(console, "WriteError")

\* the collected calls that pass the test of line 102, in the order of the list
LoopCandidates == SelectSeq(apiCalls, IsBalanceApi)

\* C15: the loop re-fetches the collected candidates one at a time in the
\* order of the resource-timing list; a candidate whose re-fetch throws is
\* skipped; the first one that parses is the result and none after it is
\* re-fetched; when all fail the page_loaded sample is returned.
C15_CandidatesInOrder ==
  LET cands == LoopCandidates
      k == Len(fetched)
  IN /\ k <= Len(cands)
     /\ \A j \in 1..k : fetched[j] = cands[j].name
     /\ \A j \in 1..(k - 1) : ~cands[j].ok
     /\ pc = "loop" => \A j \in 1..k : ~cands[j].ok
     /\ Returning =>
          IF \E j \in 1..Len(cands) : cands[j].ok
          THEN /\ k >= 1 /\ cands[k].ok
               /\ completion.value = cands[k].json
          ELSE /\ k = Len(cands)
               /\ FromFallback

C15_Witness ==
  /\ Returning /\ Len(fetched) = 2 /\ Len(LoopCandidates) = 2
  /\ ~LoopCandidates[1].ok /\ LoopCandidates[2].ok
  /\ completion.value = LoopCandidates[2].json

\* C16 as stated: what one record operation writes is the new section, the
\* rule and the prior content, and nothing else.
C16_SectionRulePriorOnly ==
  (pc = "gitAdd") =>
    balanceFile.content =
      Record(date, BalanceData(timestamp, completion.value))
        \o <<Rule>> \o existingContent

\* main has gone past the call of fetchBalance and into saveToGitHub
AfterSave == pc \in {"gitAdd", "gitCommit", "gitPush", "done", "exited", "catch"}

\* C17: the log is written at most once in a run, and only after
\* fetchBalance has returned a result and the browser is closed; a run
\* that fails in credential resolution, launch, cookie injection,
\* navigation or the DOM-ready wait leaves the file as it found it and
\* runs no git command.
C17_NoWriteBeforeExtraction ==
  /\ writes <= 1
  /\ completion.error \in CredentialErrors \cup SessionErrors =>
       /\ balanceFile = startFile
       /\ writes = 0 /\ gitCmds = <<>>
  /\ (balanceFile # startFile \/ writes = 1) =>
       /\ browser.launches = 1 /\ browser.closes = 1
       /\ AfterSave
       /\ completion.type = "return" \/ completion.error = "WriteError"

C17_Witness ==
  /\ exited /\ exitCode = 1 /\ completion.error = "TimeoutError"
  /\ browser.closes = 1
  /\ balanceFile = startFile /\ writes = 0 /\ gitCmds = <<>>

\* the git commands in the order of lines 145-147
PublishOrder == <<"add", "commit", "push">>

\* C18: git commands run only after the log write of the run succeeded, in
\* the order add, commit, push, and none runs after one that failed.
C18_PublishInOrder ==
  /\ Len(gitCmds) <= Len(PublishOrder)
  /\ \A k \in 1..Len(gitCmds) : gitCmds[k].cmd = PublishOrder[k]
  /\ \A k \in 1..(Len(gitCmds) - 1) : gitCmds[k].ok
  /\ gitCmds # <<>> =>
       /\ writes = 1 /\ completion.type = "return"
       /\ balanceFile.exists /\ balanceFile # startFile

C18_Witness ==
  /\ exited /\ Len(gitCmds) = 2
  /\ gitCmds[1].cmd = "add" /\ gitCmds[1].ok
  /\ gitCmds[2].cmd = "commit" /\ ~gitCmds[2].ok

\* main has logged the result that fetchBalance returned (line 159)
ResultReturned == Includes(console, "balance")

\* C19 as stated: whenever fetchBalance returns a result, the run writes
\* one new section to the log.
C19_ResultAlwaysRecorded ==
  (exited /\ ResultReturned) => writes = 1

\* C19 as amended: a run launches the browser at most once, navigates at
\* most once and re-fetches each candidate at most once; whenever
\* fetchBalance returns a result and the log file can be read and written,
\* exactly one new section is written and it carries that result.
C19_NoRetryResultRecorded ==
  /\ browser.launches <= 1 /\ browser.gotos <= 1 /\ writes <= 1
  /\ Len(fetched) <= Len(LoopCandidates)
  /\ (exited /\ ResultReturned) =>
       \/ completion.error \in {"ReadError", "WriteError"} /\ writes = 0
       \/ /\ completion.type = "return" /\ writes = 1
          /\ recorded[Len(recorded)].body.data = completion.value
          /\ Sections(balanceFile.content)[1] = recorded[Len(recorded)]
          /\ Len(OfKind(balanceFile.content, "header")) =
               Len(OfKind(startFile.content, "header")) + 1

C19_Witness ==
  /\ exited /\ exitCode = 0 /\ writes = 1
  /\ IsSample(completion.value) /\ completion.value.content_preview = <<>>
  /\ Sections(balanceFile.content)[1].body.data = completion.value

\* C20 as stated: the commit message, the section header and the
\* timestamp field of the recorded observation carry the same value.
C20_OneTimestamp ==
  \A k \in 1..Len(gitCmds) :
    gitCmds[k].cmd = "commit" =>
      /\ gitCmds[k].msg = Sections(balanceFile.content)[1].date
      /\ gitCmds[k].msg = Sections(balanceFile.content)[1].body.timestamp

====
